---------------------------- MODULE Spec2Model ----------------------------
(***************************************************************************)
(* A model of the AI DJ service: the crossfade audio engine                *)
(* (src/audio_player.py, class AudioPlayer) and the queue-based playlist   *)
(* application that drives it (src/main.py, class AIDJApp), run from the    *)
(* console (main.py) or under the graphical front end (src/gui_main.py),   *)
(* whose thread calls stop_radio while the event loop runs on another.     *)
(*                                                                         *)
(* Two scheduling domains are modelled as the code has them:               *)
(*  - the asyncio tasks of AIDJApp (_maintain_playlist, _process_playlist, *)
(*    _keyboard_handler) are cooperative: a task runs without interruption *)
(*    by another task from one `await` to the next, so one action covers   *)
(*    the code between two awaits;                                         *)
(*  - the threads of AudioPlayer (the monitor_playback closures and the    *)
(*    crossfade_volumes closure) are preemptive: they interleave with the  *)
(*    statements of a play call, so a play call is a sequence of steps.    *)
(*                                                                         *)
(* Time is counted in whole seconds (Tick).  A channel volume v of pygame  *)
(* (a float in [0, 1]) is held as the integer numerator v * steps, so that *)
(* step/steps is the integer step and 1.0 is steps.                        *)
(*                                                                         *)
(* A pygame channel is modelled as a handle of its own per play (a fresh   *)
(* channel slot whose volume starts at 1.0); the reuse of mixer slots by   *)
(* pygame.mixer.find_channel is not modelled.  The program never reads a   *)
(* channel's volume or position back, so `vol`, `pos` and `dur` describe   *)
(* the sound while the channel is busy, and are 0 once it is silent.       *)
(*                                                                         *)
(* An audio file is its path; `removed` is the set of the paths deleted   *)
(* so far, and a cleanup timer is a pending thread that deletes one path.  *)
(***************************************************************************)
EXTENDS Integers, Sequences, FiniteSets, TLC

(***************************************************************************)
(* Bounds of the model.                                                    *)
(***************************************************************************)
\* play calls an engine client makes (one channel handle each at most)
MaxPlays == 2
\* fetches the Queue Manager completes
MaxFetches == 4
\* fetches among them that are abandoned on a failure
MaxFails == 1
\* play calls in which loading the audio raises
MaxRaises == 1

(***************************************************************************)
(* Inputs: the lengths, in seconds, of the audio files.                    *)
(***************************************************************************)
\* a generated introduction or news segment
TalkLengths == {1}
\* the songs of the music folder: one that ends before its overlap point
\* (max(3, 1 - 2) = 3 > 1) and one that reaches it (max(3, 4 - 2) = 3 < 4)
SongLengths == {1, 4}
\* the sounds an engine client plays
ClientLengths == {1, 2}

(***************************************************************************)
(* Program constants.                                                      *)
(***************************************************************************)
\* AudioPlayer._execute_realtime_crossfade: steps = 50
steps == 50
\* AIDJApp.__init__: self.crossfade_duration = 3000
crossfade_duration == 3000
\* AIDJApp.__init__: self.news_frequency = 3
news_frequency == 3
\* AIDJApp.__init__: self.song_overlap_duration = 2.0
song_overlap_duration == 2
\* AIDJApp._wait_for_song_with_overlap: max(3.0, ...)
overlap_floor == 3
\* AIDJApp._maintain_playlist: while len(self.playlist_queue) < 4
queue_target == 4

VARIABLES
    \* ---- AudioPlayer (src/audio_player.py) ----
    is_playing,          \* self.is_playing
    channel_id,          \* self.channel_id, the generation counter
    current_channel,     \* self.current_channel (0 is None)
    current_audio_path,  \* self.current_audio_path (0 is None)
    chans,               \* the pygame channels: handle -> [busy, vol, pos, dur];
                         \* the channel a play call obtains has the handle of
                         \* the audio it plays
    mon,                 \* the monitor_playback threads, by the channel they watch
    ramp,                \* the crossfade_volumes threads, by their incoming channel
    call,                \* the play call in progress, if any
    ncalls,              \* number of play calls an engine client made so far
    nraised,             \* number of play calls whose loading raised so far
    \* ---- AIDJApp (src/main.py) ----
    playlist_queue,      \* self.playlist_queue
    currently_playing,   \* self.currently_playing
    is_running,          \* self.is_running
    songs_since_news,    \* self.songs_since_news
    overlap_allowed,     \* self.overlap_allowed
    manual_dj_mode,      \* self.manual_dj_mode
    pause_after_song,    \* self.pause_after_song
    sched,               \* the _process_playlist task: where it is suspended, its locals
    mgr,                 \* the _maintain_playlist task: where it is suspended, its locals
    \* ---- history, written by the model only ----
    enq,                 \* audio paths in the order they were appended to the queue
    deq,                 \* audio paths in the order they were popped from the queue
    kinds,               \* kind of the talk segment of each pair appended, in order
    nabandoned,          \* number of fetches abandoned on a failure
    granted,             \* audio path of the talk item that was at the head of the
                         \* queue when overlap_allowed was last raised (0: none, or
                         \* a play call has returned since)
    \* ---- the other tasks and threads of the process ----
    kbd,                 \* the _keyboard_handler task: where it is
    timers,              \* audio paths whose threading.Timer (cleanup) is pending
    removed,             \* the files os.remove has deleted (_cleanup_file): an
                         \* item's audio path, or the temporary file of a channel
    stopper,             \* the stop_radio / stop_current_playback call in progress:
                         \* its position, its caller, and (history) the number of
                         \* client play calls made when it was entered
    halted,              \* the event loop runs no task any more
    waiter,              \* a wait_for_completion call of an engine client: its
                         \* position, its timeout, the seconds it has waited, its
                         \* result, and (history) whether stop_current_playback
                         \* stopped a busy channel while it waited
    \* ---- MusicSelector (src/music_selector.py) ----
    mp3_files,           \* the *.mp3 files of the music folder, as glob finds them
    played_songs,        \* self.played_songs
    picks,               \* history: the files returned since played_songs was
                         \* last cleared, in order
    selected,            \* the outcome of the last get_random_song call
    \* ---- AnnouncementGenerator (src/announcement_generator.py) ----
    said                 \* history: the calls made so far, each with its
                         \* arguments, whether its generation failed, and the
                         \* text it returned

engineVars == <<is_playing, channel_id, current_channel, current_audio_path,
                chans, mon, ramp, call, ncalls, nraised>>

stopVars == <<kbd, timers, removed, stopper, halted>>

\* the collaborators that are called for one result at a time
libVars == <<mp3_files, played_songs, picks, selected, said>>

coreVars == <<playlist_queue, currently_playing, is_running, songs_since_news,
              overlap_allowed, manual_dj_mode, pause_after_song, sched, mgr,
              enq, deq, kinds, nabandoned, granted, kbd, timers, removed, stopper, halted,
              waiter>>

appVars == <<coreVars, libVars>>

vars == <<is_playing, channel_id, current_channel, current_audio_path,
          chans, mon, ramp, call, ncalls, nraised,
          playlist_queue, currently_playing, is_running, songs_since_news,
          overlap_allowed, manual_dj_mode, pause_after_song, sched, mgr,
          enq, deq, kinds, nabandoned, granted, kbd, timers, removed, stopper, halted,
          waiter, mp3_files, played_songs, picks, selected, said>>

\* a channel handle per audio: the client's sounds, or the queued items
Handles == 1..(IF MaxPlays > 2 * MaxFetches THEN MaxPlays ELSE 2 * MaxFetches)

NoChannel == [busy |-> FALSE, vol |-> 0, pos |-> 0, dur |-> 0]
NoMonitor == [pc |-> "none", id |-> 0]
NoRamp == [pc |-> "none", step |-> 0, cur |-> 0]
\* a play call: its position and its locals; `path` (history) is the path the
\* call took: "direct" (line 414 true, no channel busy), "direct_over" (line 414
\* true while a channel is busy), "cross" (line 414 false), "single" (the
\* handler of line 471 entered while line 414 would be true) or "single_x"
\* (entered while line 414 would be false: the crossfade path failed)
NoCall == [pc |-> "idle", audio |-> 0, dur |-> 0, xfade |-> 0,
           cur |-> 0, next |-> 0, id |-> 0, by |-> "none", returns |-> "nothing",
           path |-> "none"]

(***************************************************************************)
(* pygame channel primitives.                                              *)
(***************************************************************************)
\* channel.get_busy(); a None channel is falsy
get_busy(c) == c # 0 /\ chans[c].busy

\* channel.play(sound) on the channel pygame.mixer.find_channel() returned
ChannelPlay(ch, c, d, v) ==
    [ch EXCEPT ![c] = [busy |-> TRUE, vol |-> v, pos |-> 0, dur |-> d]]

\* channel.stop()
ChannelStop(ch, c) == [ch EXCEPT ![c] = NoChannel]

\* channel.set_volume(v)
ChannelSetVolume(ch, c, v) == [ch EXCEPT ![c].vol = v]

(***************************************************************************)
(* AudioPlayer.__init__                                                    *)
(***************************************************************************)
EngineInit ==
    /\ is_playing = FALSE
    /\ channel_id = 0
    /\ current_channel = 0
    /\ current_audio_path = 0
    /\ chans = [c \in Handles |-> NoChannel]
    /\ mon = [c \in Handles |-> NoMonitor]
    /\ ramp = [c \in Handles |-> NoRamp]
    /\ call = NoCall
    /\ ncalls = 0
    /\ nraised = 0

(***************************************************************************)
(* AudioPlayer.play_next_audio_realtime_crossfade, statement by statement. *)
(***************************************************************************)
\* the play call returns to its caller: both play_next_audio_realtime_crossfade
\* (lines 439 and 469, or line 473 after _play_single_audio) and
\* _play_single_audio (lines 394 and 397) fall off their end or `return` without
\* a value, whether the audio was started or not, and neither lets an exception
\* out; `next` is 0 if no channel was started
Return(c) == [c EXCEPT !.pc = "ret", !.returns = "None"]

\* the caller enters play_next_audio_realtime_crossfade(audio, crossfade_duration)
BeginPlay(by, audio, d, xf) ==
    /\ call.pc = "idle"
    /\ call' = [NoCall EXCEPT !.pc = "load", !.audio = audio, !.dur = d,
                              !.xfade = xf, !.by = by]
    /\ ncalls' = IF by = "client" THEN ncalls + 1 ELSE ncalls

\* lines 407-411: the audio is loaded and converted; if that raises, the handler
\* of lines 471-473 calls _play_single_audio(next_audio_path)
PlayLoad ==
    /\ call.pc = "load"
    /\ \E raised \in BOOLEAN :
          IF raised
          THEN /\ nraised < MaxRaises
               /\ nraised' = nraised + 1
               /\ call' = [call EXCEPT !.pc = "s_load",
                                       !.path = IF ~is_playing \/ current_channel = 0
                                                   \/ ~get_busy(current_channel)
                                                THEN "single" ELSE "single_x"]
          ELSE /\ call' = [call EXCEPT !.pc = "branch"]
               /\ UNCHANGED nraised
    /\ UNCHANGED <<is_playing, channel_id, current_channel, current_audio_path,
                   chans, mon, ramp, ncalls>>
    /\ UNCHANGED appVars

\* _play_single_audio, lines 362-364: the audio is loaded again; if that raises
\* the error is logged and the call returns (lines 396-397); else is_playing is
\* tested
PlaySingleLoad ==
    /\ call.pc = "s_load"
    /\ \E raised \in BOOLEAN :
          call' = IF raised
                  THEN Return([call EXCEPT !.xfade = 0])
                  ELSE [call EXCEPT !.xfade = 0,
                                    !.pc = IF is_playing THEN "s_stop" ELSE "d_play"]
    /\ UNCHANGED <<is_playing, channel_id, current_channel, current_audio_path,
                   chans, mon, ramp, ncalls, nraised>>
    /\ UNCHANGED appVars

\* stop_current_playback, lines 135-136: the current channel is stopped if busy
PlaySingleStop ==
    /\ call.pc = "s_stop"
    /\ chans' = IF get_busy(current_channel)
                THEN ChannelStop(chans, current_channel) ELSE chans
    /\ call' = [call EXCEPT !.pc = "s_unflag"]
    /\ UNCHANGED <<is_playing, channel_id, current_channel, current_audio_path,
                   mon, ramp, ncalls, nraised>>
    /\ UNCHANGED appVars

\* stop_current_playback, line 145: self.is_playing = False; _play_single_audio
\* goes on to play on a new channel (lines 372-394, the statements of the direct
\* start in the same order)
PlaySingleUnflag ==
    /\ call.pc = "s_unflag"
    /\ is_playing' = FALSE
    /\ call' = [call EXCEPT !.pc = "d_play"]
    /\ UNCHANGED <<channel_id, current_channel, current_audio_path,
                   chans, mon, ramp, ncalls, nraised>>
    /\ UNCHANGED appVars

\* line 414: if not self.is_playing or not self.current_channel
\*              or not self.current_channel.get_busy()
NothingPlaying == ~is_playing \/ current_channel = 0 \/ ~get_busy(current_channel)

\* lines 414 and 442: choose the path; the crossfade path captures current_channel
PlayBranch ==
    /\ call.pc = "branch"
    /\ call' = IF NothingPlaying
               THEN [call EXCEPT !.pc = "d_play", !.xfade = 0,
                                 !.path = IF \E c \in Handles : chans[c].busy
                                          THEN "direct_over" ELSE "direct"]
               ELSE [call EXCEPT !.pc = "x_play", !.cur = current_channel,
                                 !.path = "cross"]
    /\ UNCHANGED <<is_playing, channel_id, current_channel, current_audio_path,
                   chans, mon, ramp, ncalls, nraised>>
    /\ UNCHANGED appVars

\* lines 417-418: next_channel = find_channel(); next_channel.play(next_sound)
PlayDirectStart ==
    /\ call.pc = "d_play"
    /\ chans' = ChannelPlay(chans, call.audio, call.dur, steps)
    /\ call' = [call EXCEPT !.pc = "d_track", !.next = call.audio]
    /\ UNCHANGED <<is_playing, channel_id, current_channel, current_audio_path,
                   mon, ramp, ncalls, nraised>>
    /\ UNCHANGED appVars

\* lines 421-423: update tracking
PlayDirectTrack ==
    /\ call.pc = "d_track"
    /\ current_channel' = call.next
    /\ current_audio_path' = call.audio
    /\ call' = [call EXCEPT !.pc = "d_flag"]
    /\ UNCHANGED <<is_playing, channel_id, chans, mon, ramp, ncalls, nraised>>
    /\ UNCHANGED appVars

\* line 424: self.is_playing = True
PlayDirectFlag ==
    /\ call.pc = "d_flag"
    /\ is_playing' = TRUE
    /\ call' = [call EXCEPT !.pc = "d_id"]
    /\ UNCHANGED <<channel_id, current_channel, current_audio_path,
                   chans, mon, ramp, ncalls, nraised>>
    /\ UNCHANGED appVars

\* lines 426-427 (and 457-458): self.channel_id += 1; current_channel_id = self.channel_id
PlayBumpId ==
    /\ call.pc \in {"d_id", "x_id"}
    /\ channel_id' = channel_id + 1
    /\ call' = [call EXCEPT !.pc = "mon", !.id = channel_id + 1]
    /\ UNCHANGED <<is_playing, current_channel, current_audio_path,
                   chans, mon, ramp, ncalls, nraised>>
    /\ UNCHANGED appVars

\* lines 438 (and 469): threading.Thread(target=monitor_playback).start(); return
PlayStartMonitor ==
    /\ call.pc = "mon"
    /\ mon' = [mon EXCEPT ![call.next] = [pc |-> "poll", id |-> call.id]]
    /\ call' = Return(call)
    /\ UNCHANGED <<is_playing, channel_id, current_channel, current_audio_path,
                   chans, ramp, ncalls, nraised>>
    /\ UNCHANGED appVars

\* lines 445-447: next_channel = find_channel(); set_volume(0.0); play(next_sound)
PlayCrossStart ==
    /\ call.pc = "x_play"
    /\ chans' = ChannelPlay(chans, call.audio, call.dur, 0)
    /\ call' = [call EXCEPT !.pc = "x_ramp", !.next = call.audio]
    /\ UNCHANGED <<is_playing, channel_id, current_channel, current_audio_path,
                   mon, ramp, ncalls, nraised>>
    /\ UNCHANGED appVars

\* line 450 and lines 479-519: _execute_realtime_crossfade starts the ramp thread
PlayCrossRamp ==
    /\ call.pc = "x_ramp"
    /\ ramp' = [ramp EXCEPT ![call.next] = [pc |-> "loop", step |-> 0, cur |-> call.cur]]
    /\ call' = [call EXCEPT !.pc = "x_track", !.xfade = 0]
    /\ UNCHANGED <<is_playing, channel_id, current_channel, current_audio_path,
                   chans, mon, ncalls, nraised>>
    /\ UNCHANGED appVars

\* lines 453-456: update tracking to the new audio (is_playing is not written)
PlayCrossTrack ==
    /\ call.pc = "x_track"
    /\ current_channel' = call.next
    /\ current_audio_path' = call.audio
    /\ call' = [call EXCEPT !.pc = "x_id"]
    /\ UNCHANGED <<is_playing, channel_id, chans, mon, ramp, ncalls, nraised>>
    /\ UNCHANGED appVars

(***************************************************************************)
(* The monitor_playback / monitor_new_playback closures (one thread each). *)
(***************************************************************************)
\* while channel.get_busy(): time.sleep(0.1)   -- the loop is left
MonitorSeesEnd(c) ==
    /\ mon[c].pc = "poll"
    /\ ~get_busy(c)
    /\ mon' = [mon EXCEPT ![c].pc = "check"]
    /\ UNCHANGED <<is_playing, channel_id, current_channel, current_audio_path,
                   chans, ramp, call, ncalls, nraised>>
    /\ UNCHANGED appVars

\* the generation test: self.channel_id == current_channel_id
StillCurrent(c) == channel_id = mon[c].id

\* the wav file tempfile.mktemp named for the sound of channel c (lines 368,
\* 409): not the path of any item
TempFile(c) == 0 - c

\* if self.channel_id == current_channel_id: ... ; when the test fails the
\* thread goes on to self._cleanup_file(temp_file) and ends
MonitorCheck(c) ==
    /\ mon[c].pc = "check"
    /\ mon' = [mon EXCEPT ![c].pc = IF StillCurrent(c) THEN "set" ELSE "done"]
    /\ removed' = IF StillCurrent(c) THEN removed ELSE removed \cup {TempFile(c)}
    /\ UNCHANGED <<is_playing, channel_id, current_channel, current_audio_path,
                   chans, ramp, call, ncalls, nraised>>
    /\ UNCHANGED <<playlist_queue, currently_playing, is_running, songs_since_news,
                   overlap_allowed, manual_dj_mode, pause_after_song, sched, mgr,
                   enq, deq, kinds, nabandoned, granted, kbd, timers, stopper, halted>>
    /\ UNCHANGED <<waiter, libVars>>

\* self.is_playing = False; self._cleanup_file(temp_file)
MonitorSet(c) ==
    /\ mon[c].pc = "set"
    /\ is_playing' = FALSE
    /\ mon' = [mon EXCEPT ![c].pc = "done"]
    /\ removed' = removed \cup {TempFile(c)}
    /\ UNCHANGED <<channel_id, current_channel, current_audio_path,
                   chans, ramp, call, ncalls, nraised>>
    /\ UNCHANGED <<playlist_queue, currently_playing, is_running, songs_since_news,
                   overlap_allowed, manual_dj_mode, pause_after_song, sched, mgr,
                   enq, deq, kinds, nabandoned, granted, kbd, timers, stopper, halted>>
    /\ UNCHANGED <<waiter, libVars>>

(***************************************************************************)
(* The crossfade_volumes closure of _execute_realtime_crossfade.           *)
(***************************************************************************)
\* an outgoing volume that is not faded
full_volume(step) == steps

\* current_volume = 1.0 - (step / steps), as a numerator over steps
current_volume(step) == steps - step

\* next_volume = step / steps, as a numerator over steps
next_volume(step) == step

\* one iteration of `for step in range(steps + 1)` (lines 486-505)
RampStep(c) ==
    /\ ramp[c].pc = "loop"
    /\ LET k == ramp[c].step
           cur == ramp[c].cur
           current_active == get_busy(cur)
           next_active == get_busy(c)
       IN IF ~next_active
          THEN /\ ramp' = [ramp EXCEPT ![c].pc = "final"]
               /\ UNCHANGED chans
          ELSE /\ chans' = LET a == IF current_active
                                    THEN ChannelSetVolume(chans, cur, current_volume(k))
                                    ELSE chans
                           IN ChannelSetVolume(a, c, next_volume(k))
               /\ ramp' = [ramp EXCEPT ![c].step = k + 1,
                                       ![c].pc = IF k + 1 > steps THEN "final" ELSE "loop"]
    /\ UNCHANGED <<is_playing, channel_id, current_channel, current_audio_path,
                   mon, call, ncalls, nraised>>
    /\ UNCHANGED appVars

\* a final state that leaves the outgoing channel playing
RaiseIncomingOnly(ch, cur, c) ==
    IF get_busy(c) THEN ChannelSetVolume(ch, c, steps) ELSE ch

\* lines 507-514: the final state the thread establishes
EnsureFinalState(ch, cur, c) ==
    LET a == IF get_busy(cur) THEN ChannelStop(ch, cur) ELSE ch
    IN IF get_busy(c) THEN ChannelSetVolume(a, c, steps) ELSE a

RampFinal(c) ==
    /\ ramp[c].pc = "final"
    /\ chans' = EnsureFinalState(chans, ramp[c].cur, c)
    /\ ramp' = [ramp EXCEPT ![c].pc = "done"]
    /\ UNCHANGED <<is_playing, channel_id, current_channel, current_audio_path,
                   mon, call, ncalls, nraised>>
    /\ UNCHANGED appVars

\* lines 516-517: a pygame call of the thread (get_busy, set_volume, stop)
\* raises at some step; the handler logs the error and the thread ends
RampRaise(c) ==
    /\ ramp[c].pc \in {"loop", "final"}
    /\ nraised < MaxRaises
    /\ nraised' = nraised + 1
    /\ ramp' = [ramp EXCEPT ![c].pc = "raised"]
    /\ UNCHANGED <<is_playing, channel_id, current_channel, current_audio_path,
                   chans, mon, call, ncalls>>
    /\ UNCHANGED appVars

(***************************************************************************)
(* PlaylistItem (src/main.py).  `title` is the number of the pair the item *)
(* belongs to (an introduction is titled "Intro for <song title>"); `dur`  *)
(* is the length in seconds of the file audio_path names.                  *)
(***************************************************************************)
PlaylistItem(path, type, title, cleanup, d) ==
    [audio_path |-> path, item_type |-> type, title |-> title,
     cleanup_after |-> cleanup, dur |-> d]

NoItem == PlaylistItem(0, "none", 0, FALSE, 0)

NoSched == [pc |-> "loop", item |-> NoItem, elapsed |-> 0, overlap_start |-> 0]
NoMgr == [pc |-> "loop", item_type |-> "none", dur |-> 0, tries |-> 0]
NoStopper == [pc |-> "none", by |-> "none", calls |-> 0, busy |-> FALSE]

(***************************************************************************)
(* AudioPlayer.wait_for_completion (lines 529-548), called by a client of  *)
(* the engine from a thread of its own.                                    *)
(***************************************************************************)
\* timeout=None, the default
NoTimeout == 0 - 1

\* the timeouts a client passes, in seconds
WaitTimeouts == {NoTimeout, 0, 1}

\* the seconds a wait counts at most
MaxWait == 2

NoWaiter == [pc |-> "idle", timeout |-> NoTimeout, elapsed |-> 0,
             result |-> FALSE, cut |-> FALSE]

\* line 542, `if timeout and ...`: None and 0 are both false
Truthy(timeout) == timeout # NoTimeout /\ timeout # 0

\* line 542: timeout and (time.time() - start_time) > timeout
TimedOut(w) == Truthy(w.timeout) /\ w.elapsed > w.timeout

\* a second passes for the waiting client
WaitElapse(w) ==
    IF w.pc = "loop" /\ w.elapsed < MaxWait
    THEN [w EXCEPT !.elapsed = w.elapsed + 1] ELSE w

\* line 539: start_time = time.time()
WaitBegin ==
    /\ waiter.pc = "idle"
    /\ call.pc = "idle"
    /\ ncalls > 0
    /\ \E t \in WaitTimeouts :
          waiter' = [NoWaiter EXCEPT !.pc = "loop", !.timeout = t]
    /\ UNCHANGED engineVars
    /\ UNCHANGED <<playlist_queue, currently_playing, is_running, songs_since_news,
                   overlap_allowed, manual_dj_mode, pause_after_song, sched, mgr,
                   enq, deq, kinds, nabandoned, granted>>
    /\ UNCHANGED <<stopVars, libVars>>

\* lines 541-548: one test of the loop that ends the call; an iteration that
\* only sleeps changes nothing
WaitPoll ==
    /\ waiter.pc = "loop"
    /\ \/ /\ ~is_playing
          /\ waiter' = [waiter EXCEPT !.pc = "ret", !.result = TRUE]
       \/ /\ is_playing
          /\ TimedOut(waiter)
          /\ waiter' = [waiter EXCEPT !.pc = "ret", !.result = FALSE]
    /\ UNCHANGED engineVars
    /\ UNCHANGED <<playlist_queue, currently_playing, is_running, songs_since_news,
                   overlap_allowed, manual_dj_mode, pause_after_song, sched, mgr,
                   enq, deq, kinds, nabandoned, granted>>
    /\ UNCHANGED <<stopVars, libVars>>

(***************************************************************************)
(* MusicSelector.get_random_song (music_selector.py, lines 15-42).         *)
(***************************************************************************)
\* the files the music folder may hold
MaxSongs == 3

Catalog == 1..MaxSongs

NoSelection == [outcome |-> "none", file |-> 0, reset |-> FALSE]

\* every file of the folder, played or not
all_songs(files, played) == files

\* line 26: [f for f in mp3_files if f not in self.played_songs]
available_songs(files, played) == files \ played

\* lines 20-42: the folder is listed; with no file the call raises ValueError
\* before it touches played_songs; else a file not yet played is chosen, the
\* played set being cleared first when every file of the folder is in it
GetRandomSong ==
    /\ \/ /\ mp3_files = {}
          /\ selected' = [outcome |-> "ValueError", file |-> 0, reset |-> FALSE]
          /\ UNCHANGED <<played_songs, picks>>
       \/ /\ mp3_files # {}
          /\ LET available == available_songs(mp3_files, played_songs)
                 reset == available = {}
                 choices == IF reset THEN mp3_files ELSE available
             IN  \E f \in choices :
                    /\ played_songs' = (IF reset THEN {} ELSE played_songs) \cup {f}
                    /\ picks' = IF reset THEN <<f>> ELSE Append(picks, f)
                    /\ selected' = [outcome |-> "song", file |-> f, reset |-> reset]
    /\ UNCHANGED <<mp3_files, said>>
    /\ UNCHANGED <<engineVars, coreVars>>

\* line 20 lists the folder at every call: files are added to the folder or
\* taken from it between two calls
FolderChanges ==
    /\ \E files \in SUBSET Catalog :
          /\ files # mp3_files
          /\ mp3_files' = files
    /\ UNCHANGED <<played_songs, picks, selected, said>>
    /\ UNCHANGED <<engineVars, coreVars>>

(***************************************************************************)
(* AnnouncementGenerator (announcement_generator.py).  A text is what it   *)
(* is made of: the template, and the values put into it; a text of the     *)
(* language model is the number of its words after _clean_response.        *)
(***************************************************************************)
Titles == {"t1", "t2"}

Artists == {"a1", "a2"}

\* the stories of the news cache
Stories == {"s1"}

\* the calls recorded
MaxSaid == 2

\* what _call_ollama returns when it does not raise: texts of 20, 50 and 120
\* words
Responses == {20, 50, 120}

\* ' '.join(words[:to]) if len(words) > over
Trim(words, over, to) == IF words > over THEN to ELSE words

\* line 55: the fallback introduction
IntroFallback(song_title, artist) ==
    <<"Here's a fantastic track from", artist, "You're about to hear", song_title>>

\* lines 32-55: what generate_introduction returns; a raise of either
\* _call_ollama is caught at line 52
generate_introduction(song_title, artist) ==
    {[failed |-> TRUE, text |-> IntroFallback(song_title, artist)]}
    \cup {[failed |-> FALSE, text |-> <<"llm", Trim(r, 70, 40)>>] :
              r \in {x \in Responses : x >= 35}}
    \cup {[failed |-> FALSE, text |-> <<"llm", Trim(r, 40, 40)>>] : r \in Responses}

\* lines 206-216: random.choice(transitions), one of seven sentences
generate_music_transition(song_title, artist) ==
    {<<"transition", j, song_title, artist>> : j \in 1..7}

\* lines 220-230: random.choice(fallback_news), one of four sentences, then
\* a music transition
generate_fallback_news_announcement(song_title, artist) ==
    {<<"fallback_news", i, tr>> :
        i \in 1..4, tr \in generate_music_transition(song_title, artist)}

\* lines 181-202: the synopsis of the language model, or the sentence of line
\* 202 when _call_ollama raises
generate_news_synopsis(story) ==
    {<<"In the news today", story>>}
    \cup {<<"llm", Trim(r, 110, 100)>> : r \in {x \in Responses : x >= 90}}
    \cup {<<"llm", Trim(r, 100, 100)>> : r \in Responses}

\* lines 99-120: with no story (line 102), or on an exception (line 118), the
\* fallback announcement; else a synopsis and a music transition
generate_news_announcement(song_title, artist) ==
    {[failed |-> TRUE, text |-> f] :
        f \in generate_fallback_news_announcement(song_title, artist)}
    \cup {[failed |-> FALSE, text |-> <<syn, tr>>] :
              syn \in UNION {generate_news_synopsis(story) : story \in Stories},
              tr \in generate_music_transition(song_title, artist)}

\* a caller asks for an introduction
GenerateIntroduction ==
    /\ Len(said) < MaxSaid
    /\ \E t \in Titles, a \in Artists :
          \E r \in generate_introduction(t, a) :
             said' = Append(said, [fn |-> "generate_introduction", song_title |-> t,
                                   artist |-> a, failed |-> r.failed, text |-> r.text])
    /\ UNCHANGED <<mp3_files, played_songs, picks, selected>>
    /\ UNCHANGED <<engineVars, coreVars>>

\* a caller asks for a news announcement
GenerateNewsAnnouncement ==
    /\ Len(said) < MaxSaid
    /\ \E t \in Titles, a \in Artists :
          \E r \in generate_news_announcement(t, a) :
             said' = Append(said, [fn |-> "generate_news_announcement",
                                   song_title |-> t, artist |-> a,
                                   failed |-> r.failed, text |-> r.text])
    /\ UNCHANGED <<mp3_files, played_songs, picks, selected>>
    /\ UNCHANGED <<engineVars, coreVars>>

(***************************************************************************)
(* AIDJApp.__init__, and start_radio having created the three tasks.       *)
(***************************************************************************)
AppInit ==
    /\ playlist_queue = <<>>
    /\ currently_playing = NoItem
    /\ is_running = TRUE
    /\ songs_since_news = 0
    /\ overlap_allowed = FALSE
    /\ manual_dj_mode = FALSE
    /\ pause_after_song = FALSE
    /\ sched = NoSched
    /\ mgr = NoMgr
    /\ enq = <<>>
    /\ deq = <<>>
    /\ kinds = <<>>
    /\ nabandoned = 0
    /\ granted = 0
    /\ kbd = "start"
    /\ timers = {}
    /\ removed = {}
    /\ stopper = NoStopper
    /\ halted = FALSE
    /\ waiter = NoWaiter

\* the selector and the announcer as their constructors leave them; the
\* specifications of the application do not call them: there a fetch of the
\* Manager stands for the calls it makes (MgrFetchBegin to MgrFetchDone)
LibInit ==
    /\ mp3_files = Catalog
    /\ played_songs = {}
    /\ picks = <<>>
    /\ selected = NoSelection
    /\ said = <<>>

Init == EngineInit /\ AppInit /\ LibInit

\* the event loop's thread is inside a synchronous play call of the Scheduler:
\* no other asyncio task runs until it returns; or the loop runs no task any
\* more; or the tasks that start_radio created (lines 74-79) have not all run
\* to their first await yet; or the exception that ended a task is on its way
\* to start_radio, which the loop resumes before any other task; or the Manager
\* is between a fetch that raised before its first await and the next fetch
\* (lines 172-173: nothing suspends the task there)
LoopBusy ==
    call.pc # "idle" \/ halted \/ kbd \in {"start", "failed"} \/ mgr.pc = "retry"

(***************************************************************************)
(* Time: one second passes; a sound that has played its length ends.       *)
(***************************************************************************)
Advance(ch) ==
    [c \in Handles |->
        IF ~ch[c].busy THEN ch[c]
        ELSE IF ch[c].pos + 1 < ch[c].dur THEN [ch[c] EXCEPT !.pos = ch[c].pos + 1]
        ELSE NoChannel]

AnyBusy == \E c \in Handles : chans[c].busy

\* time.time() - start_time of _wait_for_song_with_overlap, while it is polled
Elapse(s) ==
    IF s.pc = "wait_song_overlap" /\ s.elapsed < s.overlap_start
    THEN [s EXCEPT !.elapsed = s.elapsed + 1]
    ELSE s


Tick ==
    /\ AnyBusy
    /\ chans' = Advance(chans)
    /\ sched' = Elapse(sched)
    /\ UNCHANGED <<is_playing, channel_id, current_channel, current_audio_path,
                   mon, ramp, call, ncalls, nraised>>
    /\ UNCHANGED <<playlist_queue, currently_playing, is_running, songs_since_news,
                   overlap_allowed, manual_dj_mode, pause_after_song, mgr,
                   enq, deq, kinds, nabandoned, granted>>
    /\ waiter' = WaitElapse(waiter)
    /\ UNCHANGED <<stopVars, libVars>>

(***************************************************************************)
(* AudioPlayer.is_audio_playing                                            *)
(***************************************************************************)
\* an engine that always reports not-playing
never_playing == FALSE

is_audio_playing == is_playing

\* an overlap point without the floor of line 313
overlap_without_floor(song_duration) == song_duration - song_overlap_duration

(***************************************************************************)
(* The Mode Controller: _keyboard_handler and the two requests it awaits.  *)
(***************************************************************************)
\* a pause request that toggles the pending pause
TogglePendingPause(manual, pause) ==
    IF manual THEN <<manual, pause>> ELSE <<manual, ~pause>>

\* a pause request without the test of line 122
EnableWhateverTheMode(manual, pause) == <<manual, TRUE>>

\* _enable_manual_dj_mode (lines 120-129): the flags on return
EnableManualDjMode(manual, pause) ==
    IF manual THEN <<manual, pause>> ELSE <<manual, TRUE>>

\* a resume request that clears both flags whatever the mode
ClearBothFlags(manual, pause) == <<FALSE, FALSE>>

\* _disable_manual_dj_mode (lines 131-143): the flags on return
DisableManualDjMode(manual, pause) ==
    IF ~manual THEN <<manual, pause>> ELSE <<FALSE, FALSE>>

\* key 'p'
RequestPause ==
    /\ kbd = "loop"
    /\ is_running /\ ~LoopBusy
    /\ manual_dj_mode' = EnableManualDjMode(manual_dj_mode, pause_after_song)[1]
    /\ pause_after_song' = EnableManualDjMode(manual_dj_mode, pause_after_song)[2]
    /\ UNCHANGED engineVars
    /\ UNCHANGED <<playlist_queue, currently_playing, is_running, songs_since_news,
                   overlap_allowed, sched, mgr, enq, deq, kinds, nabandoned, granted>>
    /\ UNCHANGED <<stopVars, waiter, libVars>>

\* key 'r'
RequestResume ==
    /\ kbd = "loop"
    /\ is_running /\ ~LoopBusy
    /\ manual_dj_mode' = DisableManualDjMode(manual_dj_mode, pause_after_song)[1]
    /\ pause_after_song' = DisableManualDjMode(manual_dj_mode, pause_after_song)[2]
    /\ UNCHANGED engineVars
    /\ UNCHANGED <<playlist_queue, currently_playing, is_running, songs_since_news,
                   overlap_allowed, sched, mgr, enq, deq, kinds, nabandoned, granted>>
    /\ UNCHANGED <<stopVars, waiter, libVars>>

\* key 'q' (lines 109-112)
RequestQuit ==
    /\ kbd = "loop"
    /\ is_running /\ ~LoopBusy
    /\ is_running' = FALSE
    /\ UNCHANGED engineVars
    /\ UNCHANGED <<playlist_queue, currently_playing, songs_since_news,
                   overlap_allowed, manual_dj_mode, pause_after_song, sched, mgr,
                   enq, deq, kinds, nabandoned, granted>>
    /\ kbd' = "done"
    /\ UNCHANGED <<timers, removed, stopper, halted>>
    /\ UNCHANGED <<waiter, libVars>>

(***************************************************************************)
(* The Queue Manager: _maintain_playlist and _add_next_segment_to_queue.   *)
(***************************************************************************)
\* lines 164-172: a fetch is started
\* a test that lets a fetch start with the target reached
MayFetchAtTarget ==
    /\ is_running
    /\ ~manual_dj_mode
    /\ Len(playlist_queue) <= queue_target

MayFetch ==
    /\ is_running
    /\ ~manual_dj_mode
    /\ Len(playlist_queue) < queue_target

\* the Manager's task runs: the event loop resumes it at the sleep of line 176,
\* or it has not been suspended since a fetch raised
MgrRuns ==
    \/ mgr.pc = "loop" /\ call.pc = "idle" /\ ~halted /\ kbd \notin {"start", "failed"}
    \/ mgr.pc = "retry"

\* a cadence test that fires one fetch earlier
should_play_news_early(count) == count >= news_frequency - 1

\* line 190: should_play_news
should_play_news(count) == count >= news_frequency

\* lines 192-204: the segment kind and the counter after it
SegmentKind(count) == IF should_play_news(count) THEN "news" ELSE "intro"
CountAfter(count) == IF should_play_news(count) THEN 0 ELSE count + 1

\* the two appends in the other order
EnqueueSongFirst(q, intro_item, song_item) == Append(Append(q, song_item), intro_item)

\* lines 213-230: the two appends
EnqueuePair(q, intro_item, song_item) == Append(Append(q, intro_item), song_item)

\* lines 186-207: a song is selected, the kind is decided, the counter is
\* updated, and the task is suspended in create_mixed_introduction
MgrFetchBegin ==
    /\ MgrRuns
    /\ MayFetch
    /\ mp3_files # {}
    /\ Len(kinds) + nabandoned < MaxFetches
    /\ \E d \in SongLengths :
          mgr' = [pc |-> "fetching", item_type |-> SegmentKind(songs_since_news),
                  dur |-> d, tries |-> 0]
    /\ songs_since_news' = CountAfter(songs_since_news)
    /\ UNCHANGED engineVars
    /\ UNCHANGED <<playlist_queue, currently_playing, is_running, overlap_allowed,
                   manual_dj_mode, pause_after_song, sched, enq, deq, kinds, nabandoned, granted>>
    /\ UNCHANGED <<stopVars, waiter, libVars>>

\* lines 186-203: the selection or the script generation raises before the
\* counter is written; the handler of lines 234-235 logs and the pair is
\* abandoned.  The task has met no await: it is back at the test of line 172
\* and keeps the event loop (a raise is drawn only where the next fetch is
\* within MaxFetches)
MgrFetchRaise ==
    /\ MgrRuns
    /\ MayFetch
    /\ mp3_files # {}
    /\ Len(kinds) + nabandoned + 1 < MaxFetches
    /\ nabandoned < MaxFails
    /\ nabandoned' = nabandoned + 1
    /\ mgr' = [mgr EXCEPT !.pc = "retry"]
    /\ UNCHANGED engineVars
    /\ UNCHANGED <<playlist_queue, currently_playing, is_running, songs_since_news,
                   overlap_allowed, manual_dj_mode, pause_after_song, sched,
                   enq, deq, kinds, granted>>
    /\ UNCHANGED <<stopVars, waiter, libVars>>

\* music_selector.py, lines 20-23: the music folder holds no song and
\* get_random_song raises ValueError at line 186 of main.py, before any await;
\* the handler of lines 234-235 logs, and the test of line 172 is evaluated
\* again at once.  tries is the parity of the attempts made since the task was
\* last suspended
MgrFetchEmpty ==
    /\ MgrRuns
    /\ MayFetch
    /\ mp3_files = {}
    /\ mgr' = [mgr EXCEPT !.pc = "retry", !.tries = 1 - @]
    /\ UNCHANGED engineVars
    /\ UNCHANGED <<playlist_queue, currently_playing, is_running, songs_since_news,
                   overlap_allowed, manual_dj_mode, pause_after_song, sched,
                   enq, deq, kinds, nabandoned, granted>>
    /\ UNCHANGED <<stopVars, waiter, libVars>>

\* lines 172-176: the test of the inner loop fails after a fetch that raised
\* (another thread has called stop_radio meanwhile), and the task is suspended
\* in the sleep of line 176
MgrYield ==
    /\ mgr.pc = "retry"
    /\ ~MayFetch
    /\ mgr' = NoMgr
    /\ UNCHANGED engineVars
    /\ UNCHANGED <<playlist_queue, currently_playing, is_running, songs_since_news,
                   overlap_allowed, manual_dj_mode, pause_after_song, sched,
                   enq, deq, kinds, nabandoned, granted>>
    /\ UNCHANGED <<stopVars, waiter, libVars>>

\* the files of the music folder: the song of the k-th pair appended has the
\* path 2k (song_info['file_path'], lines 222-229), its introduction the path
\* 2k - 1 of a fresh temporary file (voice_over_mixer.py, line 34)
SongFiles == {2 * k : k \in 1..MaxFetches}

\* lines 207-232: the mixed introduction is there; both items are appended
MgrFetchDone ==
    /\ mgr.pc = "fetching" /\ ~LoopBusy
    /\ \E talk \in TalkLengths :
       LET k == Len(kinds) + 1
           intro_item == PlaylistItem(2 * k - 1, mgr.item_type, k, TRUE, talk)
           song_item == PlaylistItem(2 * k, "song", k, FALSE, mgr.dur)
       IN /\ playlist_queue' = EnqueuePair(playlist_queue, intro_item, song_item)
          /\ enq' = enq \o <<intro_item.audio_path, song_item.audio_path>>
    /\ kinds' = Append(kinds, mgr.item_type)
    /\ mgr' = NoMgr
    /\ UNCHANGED engineVars
    /\ UNCHANGED <<currently_playing, is_running, songs_since_news, overlap_allowed,
                   manual_dj_mode, pause_after_song, sched, deq, nabandoned, granted>>
    /\ UNCHANGED <<stopVars, waiter, libVars>>

\* a failure between the two appends: the introduction stays in the queue
MgrFetchFailAfterIntro ==
    /\ mgr.pc = "fetching" /\ ~LoopBusy
    /\ nabandoned < MaxFails
    /\ nabandoned' = nabandoned + 1
    /\ playlist_queue' = Append(playlist_queue,
                                PlaylistItem(2 * Len(kinds) + 1, mgr.item_type,
                                             Len(kinds) + 1, TRUE, 1))
    /\ mgr' = NoMgr
    /\ UNCHANGED engineVars
    /\ UNCHANGED <<currently_playing, is_running, songs_since_news,
                   overlap_allowed, manual_dj_mode, pause_after_song, sched,
                   enq, deq, kinds, granted>>
    /\ UNCHANGED <<stopVars, waiter, libVars>>

\* lines 207-211 and 234-235: synthesis or mixing failed, or the file is invalid;
\* the pair is abandoned
MgrFetchFail ==
    /\ mgr.pc = "fetching" /\ ~LoopBusy
    /\ nabandoned < MaxFails
    /\ nabandoned' = nabandoned + 1
    /\ mgr' = NoMgr
    /\ UNCHANGED engineVars
    /\ UNCHANGED <<playlist_queue, currently_playing, is_running, songs_since_news,
                   overlap_allowed, manual_dj_mode, pause_after_song, sched,
                   enq, deq, kinds, granted>>
    /\ UNCHANGED <<stopVars, waiter, libVars>>

\* line 164: while self.is_running
MgrExit ==
    /\ mgr.pc = "loop" /\ ~LoopBusy
    /\ ~is_running
    /\ mgr' = [mgr EXCEPT !.pc = "done"]
    /\ UNCHANGED engineVars
    /\ UNCHANGED <<playlist_queue, currently_playing, is_running, songs_since_news,
                   overlap_allowed, manual_dj_mode, pause_after_song, sched,
                   enq, deq, kinds, nabandoned, granted>>
    /\ UNCHANGED <<stopVars, waiter, libVars>>

(***************************************************************************)
(* The Playback Scheduler: _process_playlist, _play_item_with_transitions  *)
(* and the two wait routines.                                              *)
(***************************************************************************)
Max(a, b) == IF a >= b THEN a ELSE b

TalkKinds == {"intro", "news"}

\* a Scheduler loop that also holds back while a pause is pending
MayDequeueUnlessPending ==
    /\ is_running
    /\ ~manual_dj_mode /\ ~pause_after_song
    /\ playlist_queue # <<>>

\* a Scheduler loop without the manual-mode test of line 242
MayDequeueInManual ==
    /\ is_running
    /\ playlist_queue # <<>>

\* lines 239-248: the loop goes on to pop an item
MayDequeue ==
    /\ is_running
    /\ ~manual_dj_mode
    /\ playlist_queue # <<>>

\* a pop from the right end of the deque
PopRight(q) == <<q[Len(q)], SubSeq(q, 1, Len(q) - 1)>>

\* line 251: self.playlist_queue.popleft(), as <<the item, the queue left>>
PopLeft(q) == <<Head(q), Tail(q)>>

\* lines 255-258: the popped item is a talk segment, something is playing, and
\* the loop `while is_running and not overlap_allowed and is_audio_playing()`
\* is entered
MustWaitForOverlap(item) ==
    /\ item.item_type \in TalkKinds
    /\ is_audio_playing
    /\ is_running /\ ~overlap_allowed /\ is_audio_playing

\* lines 282-293: the crossfade duration handed to the engine
CrossfadeFor == IF is_audio_playing THEN crossfade_duration ELSE 0

\* line 313: overlap_start_time = max(3.0, song_duration - self.song_overlap_duration)
overlap_start_time(song_duration) ==
    Max(overlap_floor, song_duration - song_overlap_duration)

\* a wait that goes on for as long as the system runs
WaitingWhileRunning == is_running

\* a wait that returns at once
NeverWaiting == FALSE

\* lines 319, 330, 342: while self.is_running and self.audio_player.is_audio_playing()
StillWaiting == is_running /\ is_audio_playing

\* a pause rule that never fires
ShouldNeverEnterManual(item) == FALSE

\* a pause rule that ignores the kind of the completed item
ShouldEnterManualAfterAnyItem(item) == pause_after_song

\* line 263: if self.pause_after_song and next_item.item_type == 'song'
ShouldEnterManual(item) == pause_after_song /\ item.item_type = "song"

\* lines 301-303 and 262-271: after the item's wait has returned, the cleanup
\* timer of a cleanup_after item is started, the pause rule is applied and the
\* overlap flag is reset; the task is back at line 239
FinishItem ==
    /\ timers' = IF sched.item.cleanup_after
                 THEN timers \cup {sched.item.audio_path} ELSE timers
    /\ manual_dj_mode' = (ShouldEnterManual(sched.item) \/ manual_dj_mode)
    /\ pause_after_song' = (pause_after_song /\ ~ShouldEnterManual(sched.item))
    /\ overlap_allowed' = FALSE
    /\ sched' = [sched EXCEPT !.pc = "loop", !.elapsed = 0, !.overlap_start = 0]

\* lines 277-293: _play_item_with_transitions enters the engine's play
StartPlay(item) ==
    /\ BeginPlay("sched", item.audio_path, item.dur, CrossfadeFor)
    /\ sched' = [NoSched EXCEPT !.pc = "in_play", !.item = item]

\* lines 242-260: an item is popped; its play is started, or the task is
\* suspended in the wait for the overlap permission
SchedDequeue ==
    /\ sched.pc = "loop" /\ ~LoopBusy
    /\ MayDequeue
    /\ LET next_item == PopLeft(playlist_queue)[1]
       IN /\ playlist_queue' = PopLeft(playlist_queue)[2]
          /\ currently_playing' = next_item
          /\ deq' = Append(deq, next_item.audio_path)
          /\ IF MustWaitForOverlap(next_item)
             THEN /\ sched' = [NoSched EXCEPT !.pc = "wait_overlap", !.item = next_item]
                  /\ UNCHANGED <<call, ncalls, nraised>>
             ELSE StartPlay(next_item)
    /\ UNCHANGED <<is_playing, channel_id, current_channel, current_audio_path,
                   chans, mon, ramp, nraised>>
    /\ UNCHANGED <<is_running, songs_since_news, overlap_allowed, manual_dj_mode,
                   pause_after_song, mgr, enq, kinds, nabandoned, granted>>
    /\ UNCHANGED <<stopVars, waiter, libVars>>

\* the statement of the play call the Scheduler's thread is at
PlayCallStep ==
    CASE call.pc = "load" -> PlayLoad
      [] call.pc = "s_load" -> PlaySingleLoad
      [] call.pc = "s_stop" -> PlaySingleStop
      [] call.pc = "s_unflag" -> PlaySingleUnflag
      [] call.pc = "branch" -> PlayBranch
      [] call.pc = "d_play" -> PlayDirectStart
      [] call.pc = "d_track" -> PlayDirectTrack
      [] call.pc = "d_flag" -> PlayDirectFlag
      [] call.pc \in {"d_id", "x_id"} -> PlayBumpId
      [] call.pc = "mon" -> PlayStartMonitor
      [] call.pc = "x_play" -> PlayCrossStart
      [] call.pc = "x_ramp" -> PlayCrossRamp
      [] call.pc = "x_track" -> PlayCrossTrack
      [] OTHER -> FALSE

SchedPlayStep ==
    /\ sched.pc = "in_play"
    /\ call.by = "sched"
    /\ PlayCallStep

\* lines 295-299 and the wait routine up to its first await: the play call has
\* returned; a song's length is probed (AudioSegment.from_mp3 may raise, and the
\* wait falls back to _wait_for_complete_playback)
SchedAfterPlay ==
    /\ sched.pc = "in_play"
    /\ call.by = "sched" /\ call.pc = "ret"
    /\ call' = NoCall
    /\ \E probed \in (IF sched.item.item_type = "song" THEN BOOLEAN ELSE {FALSE}) :
          IF StillWaiting
          THEN /\ sched' = IF probed
                           THEN [sched EXCEPT !.pc = "wait_song_overlap", !.elapsed = 0,
                                     !.overlap_start = overlap_start_time(sched.item.dur)]
                           ELSE [sched EXCEPT !.pc = "wait_complete"]
               /\ UNCHANGED <<manual_dj_mode, pause_after_song, overlap_allowed,
                               timers>>
          ELSE FinishItem
    /\ granted' = 0
    /\ UNCHANGED <<is_playing, channel_id, current_channel, current_audio_path,
                   chans, mon, ramp, ncalls, nraised>>
    /\ UNCHANGED <<playlist_queue, currently_playing, is_running, songs_since_news,
                   mgr, enq, deq, kinds, nabandoned>>
    /\ UNCHANGED <<kbd, removed, stopper, halted>>
    /\ UNCHANGED <<waiter, libVars>>

\* lines 319-327: the overlap point is reached while the song still plays; the
\* flag is raised and the task goes on waiting for the song to finish
SchedOverlapPoint ==
    /\ sched.pc = "wait_song_overlap" /\ ~LoopBusy
    /\ StillWaiting
    /\ sched.elapsed >= sched.overlap_start
    /\ overlap_allowed' = TRUE
    /\ sched' = [sched EXCEPT !.pc = "wait_song_finish"]
    /\ granted' = IF playlist_queue # <<>> /\ Head(playlist_queue).item_type \in TalkKinds
                  THEN Head(playlist_queue).audio_path ELSE 0
    /\ UNCHANGED engineVars
    /\ UNCHANGED <<playlist_queue, currently_playing, is_running, songs_since_news,
                   manual_dj_mode, pause_after_song, mgr, enq, deq, kinds, nabandoned>>
    /\ UNCHANGED <<stopVars, waiter, libVars>>

\* a polling loop is left: the wait of an item returns (lines 319, 330, 342), or
\* the wait for the overlap permission ends and the play is started (line 257)
SchedWaitEnds ==
    /\ sched.pc \in {"wait_overlap", "wait_song_overlap", "wait_song_finish",
                     "wait_complete"}
    /\ ~LoopBusy
    /\ IF sched.pc = "wait_overlap"
       THEN /\ ~(is_running /\ ~overlap_allowed /\ is_audio_playing)
            /\ StartPlay(sched.item)
            /\ UNCHANGED <<manual_dj_mode, pause_after_song, overlap_allowed, timers>>
       ELSE /\ ~StillWaiting
            /\ FinishItem
            /\ UNCHANGED <<call, ncalls, nraised>>
    /\ UNCHANGED <<is_playing, channel_id, current_channel, current_audio_path,
                   chans, mon, ramp, nraised>>
    /\ UNCHANGED <<playlist_queue, currently_playing, is_running, songs_since_news,
                   mgr, enq, deq, kinds, nabandoned, granted>>
    /\ UNCHANGED <<kbd, removed, stopper, halted>>
    /\ UNCHANGED <<waiter, libVars>>

\* line 239: while self.is_running
SchedExit ==
    /\ sched.pc = "loop" /\ ~LoopBusy
    /\ ~is_running
    /\ sched' = [sched EXCEPT !.pc = "done"]
    /\ UNCHANGED engineVars
    /\ UNCHANGED <<playlist_queue, currently_playing, is_running, songs_since_news,
                   overlap_allowed, manual_dj_mode, pause_after_song, mgr,
                   enq, deq, kinds, nabandoned, granted>>
    /\ UNCHANGED <<stopVars, waiter, libVars>>

(***************************************************************************)
(* The engine's threads, as the application runs them.                     *)
(***************************************************************************)
ThreadStep(c, t) ==
    CASE t = "sees_end" -> MonitorSeesEnd(c)
      [] t = "check" -> MonitorCheck(c)
      [] t = "set" -> MonitorSet(c)
      [] t = "ramp" -> RampStep(c)
      [] t = "final" -> RampFinal(c)

EngineThreads ==
    \E c \in Handles, t \in {"sees_end", "check", "set", "ramp", "final"} :
        ThreadStep(c, t)

(***************************************************************************)
(* The operator-input task, the cleanup timers, and the stop of the radio. *)
(***************************************************************************)
\* _keyboard_handler, line 90: `import msvcrt` is outside the try block of the
\* loop; where the module does not exist the task ends with the ImportError
KbdStart ==
    /\ kbd = "start" /\ call.pc = "idle" /\ ~halted
    /\ \E imported \in BOOLEAN : kbd' = IF imported THEN "loop" ELSE "failed"
    /\ UNCHANGED engineVars
    /\ UNCHANGED <<playlist_queue, currently_playing, is_running, songs_since_news,
                   overlap_allowed, manual_dj_mode, pause_after_song, sched, mgr,
                   enq, deq, kinds, nabandoned, granted, timers, removed, stopper, halted>>
    /\ UNCHANGED <<waiter, libVars>>

\* line 98: while self.is_running
KbdExit ==
    /\ kbd = "loop" /\ ~LoopBusy
    /\ ~is_running
    /\ kbd' = "done"
    /\ UNCHANGED engineVars
    /\ UNCHANGED <<playlist_queue, currently_playing, is_running, songs_since_news,
                   overlap_allowed, manual_dj_mode, pause_after_song, sched, mgr,
                   enq, deq, kinds, nabandoned, granted, timers, removed, stopper, halted>>
    /\ UNCHANGED <<waiter, libVars>>

\* the thread of a threading.Timer(5.0, ...) of line 303 runs _cleanup_file:
\* the 5 seconds have passed (the model does not relate them to its seconds)
\* and the file is removed
TimerFires ==
    /\ \E path \in timers :
          /\ timers' = timers \ {path}
          /\ removed' = removed \cup {path}
    /\ UNCHANGED engineVars
    /\ UNCHANGED <<playlist_queue, currently_playing, is_running, songs_since_news,
                   overlap_allowed, manual_dj_mode, pause_after_song, sched, mgr,
                   enq, deq, kinds, nabandoned, granted, kbd, stopper, halted>>
    /\ UNCHANGED <<waiter, libVars>>

\* stop_radio is entered (lines 356-359): self.is_running = False
EnterStopRadio(by) ==
    /\ stopper.pc = "none"
    /\ stopper' = [pc |-> "engine_chan", by |-> by, calls |-> ncalls,
                   busy |-> \E c \in Handles : chans[c].busy]
    /\ is_running' = FALSE

\* start_radio, lines 79-86: asyncio.gather has returned because the three tasks
\* have, or has raised the exception a task ended with; the `finally` calls
\* stop_radio on the event loop's thread, and start_radio returns after it: no
\* task is resumed any more
StartRadioFinally ==
    /\ call.pc = "idle" /\ ~halted
    /\ \/ kbd = "failed"
       \/ kbd = "done" /\ sched.pc = "done" /\ mgr.pc = "done"
    /\ EnterStopRadio("loop")
    /\ halted' = TRUE
    /\ UNCHANGED engineVars
    /\ UNCHANGED <<playlist_queue, currently_playing, songs_since_news,
                   overlap_allowed, manual_dj_mode, pause_after_song, sched, mgr,
                   enq, deq, kinds, nabandoned, granted, kbd, timers, removed>>
    /\ UNCHANGED <<waiter, libVars>>

\* stop_current_playback, lines 135-136
StopEngineChannel ==
    /\ stopper.pc = "engine_chan"
    /\ chans' = IF get_busy(current_channel)
                THEN ChannelStop(chans, current_channel) ELSE chans
    /\ stopper' = [stopper EXCEPT !.pc = "engine_flag"]
    /\ waiter' = IF waiter.pc = "loop" /\ get_busy(current_channel)
                 THEN [waiter EXCEPT !.cut = TRUE] ELSE waiter
    /\ UNCHANGED libVars
    /\ UNCHANGED <<is_playing, channel_id, current_channel, current_audio_path,
                   mon, ramp, call, ncalls, nraised>>
    /\ UNCHANGED <<playlist_queue, currently_playing, is_running, songs_since_news,
                   overlap_allowed, manual_dj_mode, pause_after_song, sched, mgr,
                   enq, deq, kinds, nabandoned, granted, kbd, timers, removed, halted>>

\* stop_current_playback, line 145: self.is_playing = False; the call returns to
\* stop_radio, or to the engine's client
StopEngineFlag ==
    /\ stopper.pc = "engine_flag"
    /\ is_playing' = FALSE
    /\ stopper' = [stopper EXCEPT
                      !.pc = IF stopper.by = "client" THEN "returned" ELSE "drain"]
    /\ UNCHANGED <<channel_id, current_channel, current_audio_path,
                   chans, mon, ramp, call, ncalls, nraised>>
    /\ UNCHANGED <<playlist_queue, currently_playing, is_running, songs_since_news,
                   overlap_allowed, manual_dj_mode, pause_after_song, sched, mgr,
                   enq, deq, kinds, nabandoned, granted, kbd, timers, removed, halted>>
    /\ UNCHANGED <<waiter, libVars>>

\* every queued file
AllQueuedPaths(q) == {q[i].audio_path : i \in 1..Len(q)}

\* lines 363-365: for item in self.playlist_queue: if item.cleanup_after
CleanupPaths(q) == {q[i].audio_path : i \in {j \in 1..Len(q) : q[j].cleanup_after}}

\* stop_radio, lines 363-367: the files of the queued cleanup_after items are
\* removed and the queue is cleared; stop_radio returns
StopDrain ==
    /\ stopper.pc = "drain"
    /\ removed' = removed \cup CleanupPaths(playlist_queue)
    /\ playlist_queue' = <<>>
    /\ stopper' = [stopper EXCEPT !.pc = "returned"]
    /\ UNCHANGED engineVars
    /\ UNCHANGED <<currently_playing, is_running, songs_since_news,
                   overlap_allowed, manual_dj_mode, pause_after_song, sched, mgr,
                   enq, deq, kinds, nabandoned, granted, kbd, timers, halted>>
    /\ UNCHANGED <<waiter, libVars>>

(***************************************************************************)
(* The graphical front end (src/gui_main.py), whose thread calls into the  *)
(* application while the event loop runs on another thread.                *)
(***************************************************************************)
\* stop_dj (lines 272-273): self.ai_dj.stop_radio() on the front end's thread
GuiStop ==
    /\ ~halted
    /\ EnterStopRadio("gui")
    /\ UNCHANGED engineVars
    /\ UNCHANGED <<playlist_queue, currently_playing, songs_since_news,
                   overlap_allowed, manual_dj_mode, pause_after_song, sched, mgr,
                   enq, deq, kinds, nabandoned, granted, kbd, timers, removed, halted>>
    /\ UNCHANGED <<waiter, libVars>>

\* stop_dj (lines 275-276): loop.call_soon_threadsafe(loop.stop) takes effect
\* between two task steps of the event loop
LoopHalts ==
    /\ stopper.by = "gui" /\ stopper.pc = "returned"
    /\ call.pc = "idle" /\ ~halted /\ mgr.pc # "retry"
    /\ halted' = TRUE
    /\ UNCHANGED engineVars
    /\ UNCHANGED <<playlist_queue, currently_playing, is_running, songs_since_news,
                   overlap_allowed, manual_dj_mode, pause_after_song, sched, mgr,
                   enq, deq, kinds, nabandoned, granted, kbd, timers, removed, stopper>>
    /\ UNCHANGED <<waiter, libVars>>

(***************************************************************************)
(* The application: the three tasks, the engine's threads, and time.       *)
(***************************************************************************)
Next ==
    \/ RequestPause
    \/ RequestResume
    \/ RequestQuit
    \/ MgrFetchBegin
    \/ MgrFetchRaise
    \/ MgrFetchDone
    \/ MgrFetchFail
    \/ MgrExit
    \/ SchedDequeue
    \/ SchedPlayStep
    \/ SchedAfterPlay
    \/ SchedOverlapPoint
    \/ SchedWaitEnds
    \/ SchedExit
    \/ EngineThreads
    \/ Tick
    \/ KbdStart
    \/ StartRadioFinally
    \/ StopEngineChannel
    \/ StopEngineFlag
    \/ StopDrain

Spec == Init /\ [][Next]_vars

(***************************************************************************)
(* The application started on a music folder that holds the catalog or no  *)
(* song at all, with an operator who has pressed 'q': the event loop runs   *)
(* every task that is ready (asyncio resumes ready tasks in turn), so the   *)
(* first step of the operator-input task, the processing of the key and     *)
(* the `finally` of start_radio are taken once they stay possible.          *)
(***************************************************************************)
FolderInit ==
    /\ EngineInit
    /\ AppInit
    /\ mp3_files \in {{}, Catalog}
    /\ played_songs = {}
    /\ picks = <<>>
    /\ selected = NoSelection
    /\ said = <<>>

FolderNext == Next \/ MgrFetchEmpty

FolderSpec ==
    /\ FolderInit
    /\ [][FolderNext]_vars
    /\ WF_vars(KbdStart)
    /\ WF_vars(RequestQuit)
    /\ WF_vars(StartRadioFinally)

(***************************************************************************)
(* The application under fair scheduling: the event loop resumes every task *)
(* that is ready (the polls of the Scheduler's waits, the Manager's loop,   *)
(* the first step of the operator-input task, the `finally` of start_radio),*)
(* the thread inside a play call runs on, the operating system schedules    *)
(* the engine's threads, and time passes while a sound plays.  The operator *)
(* is free to send requests or not.                                         *)
(***************************************************************************)
FairSpec ==
    /\ Init
    /\ [][Next]_vars
    /\ WF_vars(KbdStart)
    /\ WF_vars(StartRadioFinally)
    /\ WF_vars(MgrFetchBegin)
    /\ WF_vars(SchedDequeue)
    /\ WF_vars(SchedPlayStep)
    /\ WF_vars(SchedAfterPlay)
    /\ WF_vars(SchedOverlapPoint)
    /\ WF_vars(SchedWaitEnds)
    /\ WF_vars(EngineThreads)
    /\ WF_vars(Tick)

(***************************************************************************)
(* The application with the threads of its cleanup timers.  A timer's      *)
(* thread removes a file and shares no variable with the tasks or with the *)
(* engine; Spec leaves these threads out, and `timers` is there the set of *)
(* the timers started.                                                     *)
(***************************************************************************)
TimerNext ==
    \/ RequestPause
    \/ RequestResume
    \/ RequestQuit
    \/ MgrFetchBegin
    \/ MgrFetchRaise
    \/ MgrFetchDone
    \/ MgrFetchFail
    \/ MgrExit
    \/ SchedDequeue
    \/ SchedPlayStep
    \/ SchedAfterPlay
    \/ SchedOverlapPoint
    \/ SchedWaitEnds
    \/ SchedExit
    \/ EngineThreads
    \/ Tick
    \/ KbdStart
    \/ StartRadioFinally
    \/ StopEngineChannel
    \/ StopEngineFlag
    \/ StopDrain
    \/ TimerFires

TimerSpec == Init /\ [][TimerNext]_vars

(***************************************************************************)
(* The application under the graphical front end: the operator stops the  *)
(* radio through the front end's thread (the front end's pause and resume  *)
(* button is not part of this specification).  The stop_radio that         *)
(* start_radio calls once the stopped tasks have all returned is left out  *)
(* when the front end has called stop_radio itself.                        *)
(* The threads of the cleanup timers are left out, as in Spec.             *)
(***************************************************************************)
GuiNext ==
    \/ GuiStop
    \/ LoopHalts
    \/ MgrFetchBegin
    \/ MgrFetchRaise
    \/ MgrYield
    \/ MgrFetchDone
    \/ MgrFetchFail
    \/ MgrExit
    \/ SchedDequeue
    \/ SchedPlayStep
    \/ SchedAfterPlay
    \/ SchedOverlapPoint
    \/ SchedWaitEnds
    \/ SchedExit
    \/ EngineThreads
    \/ Tick
    \/ KbdStart
    \/ KbdExit
    \/ StartRadioFinally
    \/ StopEngineChannel
    \/ StopEngineFlag
    \/ StopDrain

GuiSpec == Init /\ [][GuiNext]_vars

(***************************************************************************)
(* The engine on its own, driven by a client that calls                    *)
(* play_next_audio_realtime_crossfade at any time, except that it starts   *)
(* no play while the ramp thread of an earlier crossfade is still running. *)
(***************************************************************************)
RampsEnded == \A c \in Handles : ramp[c].pc \in {"none", "done", "raised"}

ClientPlay ==
    /\ ncalls < MaxPlays
    /\ RampsEnded
    /\ \E d \in ClientLengths, xf \in {0, crossfade_duration} :
          BeginPlay("client", ncalls + 1, d, xf)
    /\ UNCHANGED <<is_playing, channel_id, current_channel, current_audio_path,
                   chans, mon, ramp, nraised>>
    /\ UNCHANGED appVars

ClientReturn ==
    /\ call.pc = "ret"
    /\ call.by = "client"
    /\ call' = NoCall
    /\ UNCHANGED <<is_playing, channel_id, current_channel, current_audio_path,
                   chans, mon, ramp, ncalls, nraised>>
    /\ UNCHANGED appVars

PlayCall ==
    \/ PlayLoad
    \/ PlaySingleLoad
    \/ PlaySingleStop
    \/ PlaySingleUnflag
    \/ PlayBranch
    \/ PlayDirectStart
    \/ PlayDirectTrack
    \/ PlayDirectFlag
    \/ PlayBumpId
    \/ PlayStartMonitor
    \/ PlayCrossStart
    \/ PlayCrossRamp
    \/ PlayCrossTrack

Threads ==
    \E c \in Handles :
        \/ MonitorSeesEnd(c)
        \/ MonitorCheck(c)
        \/ MonitorSet(c)
        \/ RampStep(c)
        \/ RampFinal(c)

EngineNext ==
    \/ ClientPlay
    \/ ClientReturn
    \/ PlayCall
    \/ Threads
    \/ Tick

EngineSpec == Init /\ [][EngineNext]_vars

(***************************************************************************)
(* The engine when pygame's channel calls may raise in the ramp thread     *)
(* (EngineSpec has them succeed).                                          *)
(***************************************************************************)
RampFaultNext ==
    \/ ClientPlay
    \/ ClientReturn
    \/ PlayCall
    \/ Threads
    \/ Tick
    \/ \E c \in Handles : RampRaise(c)

RampFaultSpec == Init /\ [][RampFaultNext]_vars

(***************************************************************************)
(* The engine with a second client thread that calls stop_current_playback *)
(* at any time, once.                                                      *)
(***************************************************************************)
ClientStop ==
    /\ stopper.pc = "none"
    /\ stopper' = [pc |-> "engine_chan", by |-> "client", calls |-> ncalls,
                   busy |-> AnyBusy]
    /\ UNCHANGED engineVars
    /\ UNCHANGED <<playlist_queue, currently_playing, is_running, songs_since_news,
                   overlap_allowed, manual_dj_mode, pause_after_song, sched, mgr,
                   enq, deq, kinds, nabandoned, granted, kbd, timers, removed, halted>>
    /\ UNCHANGED <<waiter, libVars>>

EngineStopNext ==
    \/ ClientPlay
    \/ ClientReturn
    \/ PlayCall
    \/ Threads
    \/ Tick
    \/ ClientStop
    \/ StopEngineChannel
    \/ StopEngineFlag

EngineStopSpec == Init /\ [][EngineStopNext]_vars

(***************************************************************************)
(* The engine with a client that plays, then waits for the completion      *)
(* while another thread may stop the playback.                             *)
(***************************************************************************)
WaitNext ==
    \/ waiter.pc = "idle" /\ ClientPlay
    \/ ClientReturn
    \/ PlayCall
    \/ Threads
    \/ Tick
    \/ WaitBegin
    \/ WaitPoll
    \/ waiter.pc = "loop" /\ ClientStop
    \/ StopEngineChannel
    \/ StopEngineFlag

WaitSpec == Init /\ [][WaitNext]_vars

(***************************************************************************)
(* The engine with a client that starts a play while the ramp thread of an *)
(* earlier crossfade still runs (EngineSpec's client waits for the ramps). *)
(* Its sounds are songs of minutes and the behaviours are the seconds      *)
(* around the crossfades: no sound ends by itself, and no second passes.   *)
(***************************************************************************)
\* play calls of the client that does not wait
MaxOverlapPlays == 3

\* the length of its sounds, in seconds
OverlapLength == 2

ClientPlayOver ==
    /\ ncalls < MaxOverlapPlays
    /\ BeginPlay("client", ncalls + 1, OverlapLength, crossfade_duration)
    /\ UNCHANGED <<is_playing, channel_id, current_channel, current_audio_path,
                   chans, mon, ramp, nraised>>
    /\ UNCHANGED appVars

OverlapNext ==
    \/ ClientPlayOver
    \/ ClientReturn
    \/ PlayCall
    \/ Threads

OverlapSpec == Init /\ [][OverlapNext]_vars

(***************************************************************************)
(* The selector alone: a folder of any files of the catalog, and calls.    *)
(***************************************************************************)
SelectorInit ==
    /\ EngineInit
    /\ AppInit
    /\ mp3_files \in SUBSET Catalog
    /\ played_songs = {}
    /\ picks = <<>>
    /\ selected = NoSelection
    /\ said = <<>>

SelectorNext ==
    \/ GetRandomSong
    \/ FolderChanges

SelectorSpec == SelectorInit /\ [][SelectorNext]_vars

(***************************************************************************)
(* The announcer alone: calls for any title and artist.                    *)
(***************************************************************************)
AnnounceNext ==
    \/ GenerateIntroduction
    \/ GenerateNewsAnnouncement

AnnounceSpec == Init /\ [][AnnounceNext]_vars


(***************************************************************************)
(* Properties of the application (checked under Spec).                     *)
(***************************************************************************)

\* C1: when a song's overlap point raises overlap_allowed with a talk item
\* waiting at the head of the queue, the Scheduler invokes the engine's play for
\* that item while the song is still playing, so that it crossfades into the
\* song; the play is not invoked only after the song has ended.
C1_TalkStartsOverSong ==
    (call.by = "sched" /\ call.pc = "load" /\ granted # 0 /\ call.audio = granted
        /\ nraised = 0)
        => (is_playing /\ get_busy(current_channel))

\* C2: Manual is entered if and only if a pause is pending and the item whose
\* processing completes is a song; the completion of an introduction or news
\* item leaves the pause pending, and no other step sets Manual.
C2_ManualOnlyAfterSong ==
    [][LET completes == sched.pc \notin {"loop", "done"} /\ sched'.pc = "loop"
           song == sched.item.item_type = "song"
       IN /\ (~manual_dj_mode /\ manual_dj_mode')
                => (completes /\ pause_after_song /\ song)
          /\ (completes /\ pause_after_song /\ song)
                => (manual_dj_mode' /\ ~pause_after_song')
          /\ (completes /\ pause_after_song /\ ~song)
                => (pause_after_song' /\ ~manual_dj_mode')
          /\ (~pause_after_song /\ pause_after_song') => ~manual_dj_mode']_vars

\* a song has completed with a pause pending: Manual, the pause consumed
C2_Witness ==
    /\ manual_dj_mode /\ ~pause_after_song
    /\ sched.pc = "loop" /\ sched.item.item_type = "song"
    /\ Len(deq) >= 4

\* C3: while Manual, the Scheduler pops nothing and invokes no play (it is
\* between items): the queue loses an item only when the stop of the radio
\* clears it; Manual is left only by a step of the Mode Controller, which
\* moves neither the Scheduler, the Queue Manager, the queue nor the engine.
C3_NoDequeueInManual ==
    [][/\ manual_dj_mode
            => /\ sched.pc \in {"loop", "done"}
               /\ deq' = deq
               /\ \/ Len(playlist_queue') >= Len(playlist_queue)
                  \/ stopper.pc = "drain" /\ stopper'.pc = "returned"
               /\ ~(call.pc = "idle" /\ call'.pc # "idle")
       /\ (manual_dj_mode /\ ~manual_dj_mode')
            => /\ sched' = sched /\ mgr' = mgr
               /\ playlist_queue' = playlist_queue
               /\ UNCHANGED engineVars]_vars

\* Manual with items queued and the Scheduler at the top of its loop
C3_Witness ==
    /\ manual_dj_mode /\ is_running
    /\ sched.pc = "loop" /\ call.pc = "idle"
    /\ playlist_queue # <<>>

\* C4: while Manual the queue is frozen: the Queue Manager appends nothing,
\* whatever the interleaving of its fetch with the Scheduler's switch to Manual.
C4_QueueFrozenInManual ==
    [][manual_dj_mode => enq' = enq]_vars

\* C5: every introduction or news item in the queue is directly followed by the
\* song that was enqueued with it.
C5_PairAtomicity ==
    \A i \in 1..Len(playlist_queue) :
        playlist_queue[i].item_type \in TalkKinds
            => /\ i < Len(playlist_queue)
               /\ playlist_queue[i + 1].item_type = "song"
               /\ playlist_queue[i + 1].title = playlist_queue[i].title

\* the Scheduler has popped an introduction: its song is at the head, and a
\* later pair follows it
C5_Witness ==
    /\ Len(playlist_queue) >= 3
    /\ Head(playlist_queue).item_type = "song"
    /\ playlist_queue[2].item_type \in TalkKinds
    /\ sched.pc # "loop"

\* C6: the items dequeued so far are the first of the items enqueued, in the
\* order of their enqueueing, and until the stop of the radio has cleared the
\* queue the items still queued are the rest, in that order: nothing is
\* reordered, skipped or dequeued twice.
C6_Fifo ==
    /\ Len(deq) <= Len(enq)
    /\ deq = SubSeq(enq, 1, Len(deq))
    /\ stopper.pc # "returned"
          => enq = deq \o [i \in 1..Len(playlist_queue) |-> playlist_queue[i].audio_path]

\* two pairs have been dequeued and more is queued
C6_Witness ==
    /\ Len(deq) >= 4
    /\ playlist_queue # <<>>

C11_AbandonedFetchLeavesQueue ==
    [][nabandoned' # nabandoned
          => /\ playlist_queue' = playlist_queue
             /\ enq' = enq
             /\ mgr'.pc \in {"loop", "retry"}
             /\ is_running' = is_running]_vars

\* a fetch was abandoned, and fetches before or after it filled the queue
C11_Witness ==
    /\ nabandoned >= 1
    /\ Len(kinds) >= 3
    /\ mgr.pc = "loop"

\* C12: the news counter is written only by fetches that enqueue their pair:
\* between fetches it is the number of introduction pairs enqueued since the
\* last news pair was enqueued.
C12_CounterCountsEnqueuedPairs ==
    LET news == {k \in 1..Len(kinds) : kinds[k] = "news"}
        last == IF news = {} THEN 0 ELSE CHOOSE k \in news : \A j \in news : j <= k
    IN mgr.pc = "loop" => songs_since_news = Len(kinds) - last

\* C17: a pause request changes nothing in Manual and leaves the flags at
\* PendingPause otherwise; a second request in a row changes nothing more.  A
\* step that raises pause_after_song is such a request and moves nothing else.
C17_PauseIdempotent ==
    /\ [](LET once == EnableManualDjMode(manual_dj_mode, pause_after_song)
              twice == EnableManualDjMode(once[1], once[2])
          IN /\ twice = once
             /\ manual_dj_mode => once = <<manual_dj_mode, pause_after_song>>
             /\ ~manual_dj_mode => once = <<FALSE, TRUE>>)
    /\ [][(~pause_after_song /\ pause_after_song')
             => /\ ~manual_dj_mode /\ ~manual_dj_mode'
                /\ sched' = sched /\ mgr' = mgr
                /\ playlist_queue' = playlist_queue
                /\ is_running' = is_running]_vars

\* a pause is pending while an item is being processed
C17_Witness ==
    /\ pause_after_song /\ ~manual_dj_mode
    /\ EnableManualDjMode(manual_dj_mode, pause_after_song) = <<FALSE, TRUE>>
    /\ sched.pc \in {"wait_song_overlap", "wait_song_finish", "wait_complete"}

\* C18: a resume request changes nothing unless the mode is Manual (a pending
\* pause stays pending) and sets Auto in Manual; a second request in a row
\* changes nothing more.  A step that clears pause_after_song is a resume in
\* Manual or the Scheduler's switch to Manual.
C18_ResumeIdempotent ==
    /\ [](LET once == DisableManualDjMode(manual_dj_mode, pause_after_song)
              twice == DisableManualDjMode(once[1], once[2])
          IN /\ twice = once
             /\ ~manual_dj_mode => once = <<manual_dj_mode, pause_after_song>>
             /\ manual_dj_mode => once = <<FALSE, FALSE>>)
    /\ [][(pause_after_song /\ ~pause_after_song') => manual_dj_mode']_vars

\* Manual, where a resume request sets Auto
C18_Witness ==
    /\ manual_dj_mode /\ is_running
    /\ DisableManualDjMode(manual_dj_mode, pause_after_song) = <<FALSE, FALSE>>
    /\ Len(deq) >= 2

\* C19: a resume in Manual returns with the mode Auto and no pause pending, and
\* whenever the mode is not Manual, the system is running, the queue is not
\* empty and the Scheduler is at the top of its loop, its next iteration pops
\* the head of the queue (the event loop resumes the Scheduler once the
\* Manager is not in the middle of a retry).
C19_ResumeLeadsToDequeue ==
    /\ []((/\ is_running /\ ~manual_dj_mode
           /\ playlist_queue # <<>>
           /\ sched.pc = "loop" /\ call.pc = "idle"
           /\ mgr.pc # "retry") => ENABLED SchedDequeue)
    /\ [][/\ (manual_dj_mode /\ ~manual_dj_mode')
                => (~pause_after_song' /\ sched' = sched)
          /\ (sched.pc = "loop" /\ sched' # sched /\ is_running)
                => /\ deq' = Append(deq, Head(playlist_queue).audio_path)
                   /\ playlist_queue' = Tail(playlist_queue)]_vars

\* Manual in silence, the queue not empty: the state a resume is requested in
C19_Witness ==
    /\ manual_dj_mode /\ is_running
    /\ ~is_playing /\ ~AnyBusy
    /\ playlist_queue # <<>>
    /\ sched.pc = "loop"

\* C23: the file of an item is not removed while the channel that plays the
\* item is busy.
C23_NoRemovalWhilePlaying ==
    [][\A p \in removed' \ removed : p > 0 => ~chans[p].busy]_vars

\* C24: no file of the music folder is ever removed, and no cleanup timer is
\* ever started for one: neither the deferred cleanup, nor the drain of
\* stop_radio, nor a monitor thread of the engine deletes a source song.
C24_SongFilesNeverRemoved ==
    (removed \cup timers) \cap SongFiles = {}

\* the radio has been stopped with a pair still queued: the introduction's
\* file was removed by the drain, a monitor thread has removed its temporary
\* file, a cleanup timer was started, and a song has been played
C24_Witness ==
    /\ stopper.pc = "returned"
    /\ \E p \in removed : p > 0
    /\ \E p \in removed : p < 0
    /\ timers # {}
    /\ \E i \in 1..Len(deq) : deq[i] \in SongFiles
    /\ \E i \in 1..Len(enq) : enq[i] \in SongFiles /\ \A j \in 1..Len(deq) : deq[j] # enq[i]

\* C26: wait_for_completion returns true only if the playback ended by itself:
\* it returns false when a stop request ended the playback during the wait, and
\* false when its timeout (0 included) elapsed while the engine was playing.
C26_WaitResult ==
    [][(waiter.pc = "loop" /\ waiter'.pc = "ret" /\ waiter'.result)
          => ~waiter.cut]_vars

\* C27: get_random_song returns no file a second time before every file of the
\* folder has been returned since the played set was last cleared: the files
\* returned since then are pairwise distinct and are the played set, the set is
\* cleared only by a call that finds every file of the folder in it, and a call
\* on an empty folder fails and leaves the played set as it was.
C27_NoRepeatBeforeExhaustion ==
    /\ [](/\ played_songs = {picks[i] : i \in 1..Len(picks)}
          /\ \A i, j \in 1..Len(picks) : picks[i] = picks[j] => i = j)
    /\ [][((picks' # picks /\ Len(picks') <= Len(picks))
               => (mp3_files \subseteq played_songs))
           /\ ((mp3_files = {})
               => (/\ played_songs' = played_songs
                   /\ selected' # selected => selected'.outcome = "ValueError"))]_vars

\* a folder of MaxSongs files has been played through, and the call after the
\* last file has cleared the played set and returned a file again
C27_Witness ==
    /\ Cardinality(mp3_files) = MaxSongs
    /\ selected.outcome = "song"
    /\ selected.reset
    /\ picks = <<selected.file>>

\* C28: two calls of the same function with the same title and artist whose
\* generation failed both return the same text.
C28_FallbackIsDeterministic ==
    \A i, j \in 1..Len(said) :
        (/\ said[i].fn = said[j].fn
         /\ said[i].song_title = said[j].song_title
         /\ said[i].artist = said[j].artist
         /\ said[i].failed /\ said[j].failed)
            => said[i].text = said[j].text

\* C29: while the system is running, the Scheduler is inside the engine's play
\* for an introduction or a news item only if, when it invoked the play, the
\* overlap permission was raised or the engine reported not-playing: at the
\* first statement of such a call overlap_allowed holds or is_playing is false.
C29_TalkPlayNeedsPermission ==
    (/\ call.by = "sched" /\ call.pc = "load"
     /\ sched.item.item_type \in TalkKinds
     /\ is_running)
        => (overlap_allowed \/ ~is_playing)

\* the play of an introduction or a news item has been invoked, while
\* running, after earlier items have been played
C29_Witness ==
    /\ call.by = "sched" /\ call.pc = "load"
    /\ sched.item.item_type \in TalkKinds
    /\ is_running
    /\ Len(deq) >= 3
    /\ ~is_playing

Started == {c \in Handles : mon[c].pc # "none"}

\* the channels that sound
Sounding == {c \in Handles : chans[c].busy}

C32_BusyChannelIsReported ==
    (call.pc = "idle" /\ get_busy(current_channel)) => is_playing

\* a crossfade between the channels a and b is in progress: the ramp thread
\* started for one of them, fading the other out, has not ended, or the play
\* call that has started the incoming channel is about to start that thread
RampBetween(a, b) ==
    \/ ramp[a].pc \in {"loop", "final"} /\ ramp[a].cur = b
    \/ ramp[b].pc \in {"loop", "final"} /\ ramp[b].cur = a
    \/ call.pc = "x_ramp" /\ {call.next, call.cur} = {a, b}

\* C33: at most two channels are busy, and two are busy only while a crossfade
\* between those two is in progress.
C33_TwoChannelsOnlyInCrossfade ==
    /\ Cardinality(Sounding) <= 2
    /\ \A a, b \in Sounding : a # b => RampBetween(a, b)

\* C34: once the ramp thread of a second crossfade has begun to fade a channel
\* out, no step of the ramp thread of the first crossfade, which faded that
\* channel in, raises the channel's volume.
C34_FadingChannelNotRaised ==
    [][\A b \in Handles :
          (/\ \E c \in Handles : /\ ramp[c].pc \in {"loop", "final"}
                                  /\ ramp[c].cur = b
                                  /\ ramp[c].step >= 1
           /\ ramp[b].pc \in {"loop", "final"}
           /\ ramp'[b] # ramp[b])
             => chans'[b].vol <= chans[b].vol]_vars

\* C35: under fair scheduling the quit request of the operator is eventually
\* processed (is_running becomes false), whatever the fetches of the Manager
\* do, an empty music folder included
C35_QuitEventuallyProcessed == <>(~is_running)

\* C36: the queue holds at most queue_target + 1 = 5 items; the Manager starts
\* a fetch only when the system is running, the mode is not Manual and the
\* queue holds fewer than queue_target items; the queue grows only at the end
\* of a fetch, by exactly two items, and a fetch that is abandoned adds none.
C36_QueueBound ==
    /\ [](Len(playlist_queue) <= queue_target + 1)
    /\ [][/\ (mgr.pc # "fetching" /\ (mgr'.pc = "fetching" \/ nabandoned' > nabandoned))
               => (is_running /\ ~manual_dj_mode /\ Len(playlist_queue) < queue_target)
          /\ (Len(playlist_queue') > Len(playlist_queue))
               => (/\ mgr.pc = "fetching" /\ mgr'.pc = "loop"
                   /\ Len(playlist_queue') = Len(playlist_queue) + 2
                   /\ Len(enq') = Len(enq) + 2)
          /\ Len(enq') - Len(enq) \in {0, 2}
          /\ (nabandoned' > nabandoned) => (enq' = enq)]_vars

\* a fetch that started with three items queued has brought the queue to five
C36_Witness ==
    /\ Len(playlist_queue) = queue_target + 1
    /\ mgr.pc = "loop"
    /\ Len(kinds) >= 3

\* C37: the mode starts as Auto (both flags false), and manual_dj_mode and
\* pause_after_song are never both true: the two flags encode exactly one of
\* Auto, PendingPause and Manual, whatever the interleaving of the pause and
\* resume requests with the Scheduler's switch to Manual.
C37_FlagsExclusive ==
    /\ ~manual_dj_mode /\ ~pause_after_song
    /\ [](~(manual_dj_mode /\ pause_after_song))

\* the Scheduler has switched to Manual on a pending pause, with the operator
\* still able to send requests and a fetch of the Manager under way
C37_Witness ==
    /\ manual_dj_mode /\ ~pause_after_song
    /\ is_running /\ kbd = "loop"
    /\ mgr.pc = "fetching"
    /\ sched.item.item_type = "song"

\* C38: a pending pause is cancelled by no operation: from PendingPause the
\* next mode is PendingPause or Manual; and under fair scheduling PendingPause
\* with a song still to complete (queued, or being processed by the Scheduler)
\* leads to Manual unless the system stops.
C38_PendingPauseLeadsToManual ==
    /\ [][(pause_after_song /\ ~manual_dj_mode)
             => \/ pause_after_song' /\ ~manual_dj_mode'
                \/ manual_dj_mode' /\ ~pause_after_song']_vars
    /\ (/\ pause_after_song /\ ~manual_dj_mode
        /\ \/ \E i \in 1..Len(playlist_queue) : playlist_queue[i].item_type = "song"
           \/ sched.pc \notin {"loop", "done"} /\ sched.item.item_type = "song")
          ~> (manual_dj_mode \/ ~is_running)

\* a pause is pending, a resume request can be processed, and a song is queued
C38_Witness ==
    /\ pause_after_song /\ ~manual_dj_mode
    /\ kbd = "loop" /\ is_running /\ ~LoopBusy
    /\ \E i \in 1..Len(playlist_queue) : playlist_queue[i].item_type = "song"
    /\ sched.pc = "wait_complete"

\* the Scheduler's play call has returned and the engine reports not-playing
PlayReturnedSilent ==
    /\ sched.pc = "in_play"
    /\ call.by = "sched" /\ call.pc = "ret"
    /\ ~is_playing

\* C39: an item whose play call returns with is_playing false does not block
\* the Scheduler: its wait returns in the Scheduler's next step, which starts
\* the cleanup timer of a cleanup_after item and is back at the top of the loop;
\* and under fair scheduling, with a next item queued, the Scheduler goes on to
\* dequeue it (the Scheduler enters the play of the item it has popped, or the
\* wait for the overlap permission) unless the system stops or the mode becomes
\* Manual.
C39_FailedStartDoesNotBlock ==
    /\ [][(PlayReturnedSilent /\ call'.pc = "idle")
             => (/\ sched'.pc = "loop"
                 /\ sched.item.cleanup_after => sched.item.audio_path \in timers')]_vars
    /\ (PlayReturnedSilent /\ playlist_queue # <<>>)
          ~> \/ sched.pc = "in_play" /\ call.pc = "load"
             \/ sched.pc = "wait_overlap"
             \/ ~is_running
             \/ manual_dj_mode

\* the play of an introduction started no channel; the Scheduler is back at
\* the top of its loop, the cleanup timer of the item is started, and the
\* item's song is queued
C39_Witness ==
    /\ sched.pc = "loop" /\ is_running /\ ~manual_dj_mode
    /\ sched.item.cleanup_after
    /\ sched.item.audio_path \notin Started
    /\ sched.item.audio_path \in timers
    /\ playlist_queue # <<>>

\* C13: is_running goes from true to false only by the quit command; no error
\* of a task makes it false.
C13_OnlyQuitStops ==
    [][(is_running /\ ~is_running') => (kbd = "loop" /\ kbd' = "done")]_vars

\* C14: once stop_radio has returned the queue is empty, and it stays empty,
\* whatever a fetch in flight and the Scheduler do.
C14_QueueEmptyAfterStop ==
    stopper.pc = "returned" => playlist_queue = <<>>

\* C15: in every state where stop_radio has returned, no ramp thread is running
\* and no cleanup timer is pending (stated for the runs in which every load
\* of an audio file succeeded).
C15_StopJoinsRampsAndTimers ==
    (stopper.pc = "returned" /\ nraised = 0) => (RampsEnded /\ timers = {})

(***************************************************************************)
(* Properties of the audio engine (checked under EngineSpec).              *)
(***************************************************************************)

\* C8: a monitor thread writes is_playing = False only if the generation it
\* captured is the engine's current generation at the time of the write.
C8_StaleMonitorNeverWrites ==
    [][\A c \in Handles :
          (mon[c].pc = "set" /\ mon'[c].pc = "done") => mon[c].id = channel_id]_vars

C21_FallbackPlaysDirect ==
    [][(call.pc # "ret" /\ call'.pc = "ret" /\ call'.path = "single_x" /\ call'.next # 0)
          => /\ \A c \in Handles :
                   chans'[c].busy => (c = call'.next /\ chans'[c].vol = steps)
             /\ ramp'[call'.next].pc = "none"
             /\ is_playing'
             /\ channel_id' = call'.id /\ channel_id' = Cardinality(Started)']_vars

\* C22: once the ramp thread of a crossfade has ended on an error, the outgoing
\* channel is stopped and the incoming channel, if it still plays, is at full
\* volume.
C22_RampErrorForcesFinalState ==
    \A c \in Handles :
        ramp[c].pc = "raised"
            => /\ ~get_busy(ramp[c].cur)
               /\ chans[c].busy => chans[c].vol = steps

\* C25: a play call that found nothing playing returns, whatever its
\* crossfade_duration, in a state with no channel busy but the new one, the new
\* one at full volume with no ramp thread, is_playing true, and the generation
\* advanced by one.
C25_DirectStart ==
    [][(call.pc # "ret" /\ call'.pc = "ret" /\ call'.path = "direct")
          => /\ call'.next = call'.audio
             /\ \A c \in Handles :
                   chans'[c].busy => (c = call'.next /\ chans'[c].vol = steps)
             /\ ramp'[call'.next].pc = "none"
             /\ is_playing'
             /\ channel_id' = call'.id /\ channel_id' = Cardinality(Started)']_vars

\* C16: once a stop of the engine that was requested while a sound was playing
\* has returned, and as long as no play has been called since the request, no
\* channel is busy and is_playing is false.
C16_StoppedEngineIsSilent ==
    (stopper.pc = "returned" /\ stopper.busy /\ ncalls = stopper.calls)
        => (~AnyBusy /\ ~is_playing)

\* C20: a play call in which loading the audio failed, so that no channel was
\* started, returns something its caller can tell apart from a successful play.
C20_FailureIsSurfaced ==
    (call.pc = "ret" /\ call.next = 0) => call.returns # "None"

=============================================================================
